---- MODULE Spec2Model ----
(***************************************************************************)
(* Model of the coda-doc-scraper components:                               *)
(*   - TableListView (selection handlers handleSelectTable/handleSelectAll)*)
(*   - TableCard     (fetchColumns / fetchRows effects, filterData,        *)
(*                    handleCopyTableData)                                 *)
(* Three specifications share the module:                                  *)
(*   SpecSelection : the selection handlers of TableListView               *)
(*   SpecFilter    : filterData applied at fetch time and at copy time     *)
(*   Spec          : the asynchronous fetch effects of the table cards     *)
(***************************************************************************)
EXTENDS Integers, Sequences, FiniteSets, Bags, TLC

VARIABLES
  \* ---- TableListView ----
  tables,          \* prop `tables`: sequence of table ids (table.id of each entry)
  heap,            \* the Set objects: heap[ref] is the content of Set object ref
  cur,             \* prop `selectedTables`: reference of the current Set object
  hist,            \* the last (at most 2) handler calls: [op, id, ref, before]
  \* ---- filterData ----
  items,           \* response.data.items handed to filterData
  selectedAttributes, \* the allow-list handed to filterData
  stored,          \* the filtered data kept in tableData
  fetched,         \* whether the fetch has stored its filtered result
  filteredData,    \* handleCopyTableData: the value it read and the value it serialises
  \* ---- TableCard (one entry per card) ----
  rowCount,        \* useState('1')
  tableData,       \* useState({columns: [], rows: []})
  isLoading,       \* useState(false)
  error,           \* useState('')
  colReqs,         \* in-flight column requests (bag of closures)
  rowReqs,         \* in-flight row requests (bag of closures)
  parentData,      \* last value handed to onTableDataChange(table.id, ...)
  events,          \* number of user events so far (bounded)
  lastEvent        \* the step taken last: [kind, card]

selVars    == <<tables, heap, cur, hist>>
filterVars == <<items, selectedAttributes, stored, fetched, filteredData>>
cardVars   == <<rowCount, tableData, isLoading, error, colReqs, rowReqs, parentData, events, lastEvent>>
vars       == <<tables, heap, cur, hist, items, selectedAttributes, stored, fetched, filteredData,
                rowCount, tableData, isLoading, error, colReqs, rowReqs, parentData, events, lastEvent>>

(***************************************************************************)
(* Bounds                                                                  *)
(***************************************************************************)
MaxTables  == 3    \* longest table list
MaxRecords == 1    \* longest item sequence handed to filterData
MaxEvents  == 1    \* user events (row-mode changes, credential changes) explored

(***************************************************************************)
(* JavaScript values: null, undefined, strings and plain objects (one      *)
(* level of string-valued entries).                                        *)
(***************************************************************************)
NoMap     == [k \in {} |-> ""]
Null      == [t |-> "null",      s |-> "", m |-> NoMap]
Undefined == [t |-> "undefined", s |-> "", m |-> NoMap]
Str(x)    == [t |-> "string",    s |-> x,  m |-> NoMap]
Obj(f)    == [t |-> "object",    s |-> "", m |-> f]

\* typeof value (typeof null is 'object')
TypeOf(v) == IF v.t = "null" THEN "object" ELSE v.t


(***************************************************************************)
(* TableListView: the selection handlers                                   *)
(***************************************************************************)
Ids  == {"t1", "t2", "t3"}          \* table identifiers
Refs == {0, 1}                      \* the current Set object and the previous one

RECURSIVE SeqsUpTo(_, _)
\* all sequences over S of length at most n
SeqsUpTo(S, n) ==
  IF n = 0 THEN {<<>>}
  ELSE LET shorter == SeqsUpTo(S, n - 1)
       IN shorter \cup {Append(q, x) : q \in {r \in shorter : Len(r) = n - 1}, x \in S}

Distinct(q) == \A i, j \in 1..Len(q) : i # j => q[i] # q[j]

\* table lists: table.id is unique within a document (it is the React key)
TableLists == {q \in SeqsUpTo(Ids, MaxTables) : Distinct(q)}

\* tables.map(table => table.id), as the Set built from it
TableIdSet(tbls) == {tbls[i] : i \in 1..Len(tbls)}

\* the value of the prop selectedTables
selectedTables == heap[cur]

\* new Set(selectedTables), mutated so that it shares the old object
NewSetAlias(h, src) == [ref |-> src, heap |-> h]

\* new Set(selectedTables): a fresh object holding a copy of the members
NewSetFrom(h, src) == [ref |-> 1 - src, heap |-> [h EXCEPT ![1 - src] = h[src]]]

\* new Set() / new Set(iterable): a fresh object holding the given members
NewSetOf(h, src, elems) == [ref |-> 1 - src, heap |-> [h EXCEPT ![1 - src] = elems]]

SetHas(h, r, x)    == x \in h[r]
SetDelete(h, r, x) == [h EXCEPT ![r] = @ \ {x}]
SetAdd(h, r, x)    == [h EXCEPT ![r] = @ \cup {x}]

\* the test of handleSelectAll, mutated so that nothing ever counts as all selected
AllSelectedNever(h, c, tbls) == FALSE

\* selectedTables.size === tables.length
AllSelected(h, c, tbls) == Cardinality(h[c]) = Len(tbls)

\* the last two handler calls
Remember(h, call) == IF Len(h) < 2 THEN Append(h, call) ELSE <<h[2], call>>

handleSelectTable(tableId) ==
  LET n  == NewSetFrom(heap, cur)
      h2 == IF SetHas(n.heap, n.ref, tableId)
            THEN SetDelete(n.heap, n.ref, tableId)
            ELSE SetAdd(n.heap, n.ref, tableId)
  IN /\ heap' = h2
     /\ cur' = n.ref                                   \* setSelectedTables(newSelectedTables)
     /\ hist' = Remember(hist, [op |-> "toggle", id |-> tableId,
                                ref |-> cur, before |-> heap[cur]])
     /\ UNCHANGED tables

handleSelectAll ==
  LET n == IF AllSelected(heap, cur, tables)
           THEN NewSetOf(heap, cur, {})
           ELSE NewSetOf(heap, cur, TableIdSet(tables))
  IN /\ heap' = n.heap
     /\ cur' = n.ref
     /\ hist' = Remember(hist, [op |-> "all", id |-> "",
                                ref |-> cur, before |-> heap[cur]])
     /\ UNCHANGED tables

(***************************************************************************)
(* TableCard: filterData                                                   *)
(***************************************************************************)
AttrNames  == {"id", "name", "values"}      \* attribute names of a record
Cols       == {"Amount", "Date"}            \* entries of a row's `values`
CellValues == {"", "2024-01-01"}

Maps == UNION {[D -> CellValues] : D \in SUBSET Cols}

\* the values an attribute takes in the explored records
AttrValues(k) ==
  CASE k = "id"     -> {Null, Str("r1")}
    [] k = "name"   -> {Undefined, Str(""), Obj([c \in {"Amount"} |-> ""])}
    [] k = "values" -> {Null, Str("")} \cup {Obj(f) : f \in Maps}

AllValues == UNION {AttrValues(k) : k \in AttrNames}

\* a record maps some attribute names to values
Records ==
  UNION {{r \in [D -> AllValues] : \A k \in D : r[k] \in AttrValues(k)} : D \in SUBSET AttrNames}

\* .filter(([key]) => selectedAttributes.includes(key))
KeepSelected(item, attrs) == [k \in {a \in DOMAIN item : a \in attrs} |-> item[k]]

\* the cleanup of `values`, mutated so that it removes only the first empty entry
CleanValuesFirstOnly(value) ==
  LET empties == {c \in DOMAIN value.m : value.m[c] = ""}
      first   == CHOOSE c \in empties : \A d \in empties : c = "Amount" \/ d # "Amount"
  IN IF empties = {} THEN Obj(value.m)
     ELSE Obj([c \in DOMAIN value.m \ {first} |-> value.m[c]])

\* Object.fromEntries(Object.entries(value).filter(([, val]) => val !== ''))
CleanValues(value) == Obj([c \in {d \in DOMAIN value.m : value.m[d] # ""} |-> value.m[c]])

\* .map(([key, value]) => ...)
MapEntry(key, value) ==
  IF key = "values" /\ TypeOf(value) = "object" /\ value # Null
  THEN CleanValues(value)
  ELSE value

\* the last filter, mutated so that it drops null only
DropNullOnly(item) == [k \in {a \in DOMAIN item : item[a] # Null} |-> item[k]]

\* .filter(([, value]) => value !== null && value !== '' && value !== undefined)
DropEmpty(item) ==
  [k \in {a \in DOMAIN item : item[a] # Null /\ item[a] # Str("") /\ item[a] # Undefined}
     |-> item[k]]

FilterItem(item, attrs) ==
  LET kept   == KeepSelected(item, attrs)
      mapped == [k \in DOMAIN kept |-> MapEntry(k, kept[k])]
  IN DropEmpty(mapped)

\* data.map((item) => filteredItem)
filterData(data, attrs) == [i \in 1..Len(data) |-> FilterItem(data[i], attrs)]

NotCopied == [copied |-> FALSE, from |-> <<>>, out |-> <<>>]

\* the success path of a fetch: filter the response items and store them
FetchSuccess ==
  /\ ~fetched
  /\ stored' = filterData(items, selectedAttributes)
  /\ fetched' = TRUE
  /\ UNCHANGED <<items, selectedAttributes, filteredData>>

\* the copy button (and the preview): filter the stored data again
handleCopyTableData ==
  /\ filteredData' = [copied |-> TRUE, from |-> stored,
                      out |-> filterData(stored, selectedAttributes)]
  /\ UNCHANGED <<items, selectedAttributes, stored, fetched>>

(***************************************************************************)
(* TableCard: the fetchColumns and fetchRows effects                       *)
(***************************************************************************)
Cards      == {"t1", "t2"}                  \* table.id of the mounted cards
RowOptions == {"0", "1", "All"}             \* rowOptions[i].value

\* props of the card: the allow-lists
selectedColumnAttributes == {"id", "name"}
selectedRowAttributes    == {"id", "values"}

\* what the document API holds for a table
ColumnItems ==
  << [id |-> Str("c1"), name |-> Str("Amount"), type |-> Str("currency")] >>
RowItems ==
  << [id |-> Str("r1"), values |-> Obj([c \in Cols |-> IF c = "Amount" THEN "" ELSE "2024-01-01"])],
     [id |-> Str("r2"), values |-> Obj([c \in Cols |-> "2024-01-01"])] >>

UndefinedLimit == [defined |-> FALSE, n |-> 0]

\* parseInt(rowCount, 10) on the numeric row options
ParseInt(str) == CASE str = "0" -> 0 [] str = "1" -> 1

\* the limit, mutated so that it is never sent
RowLimitNever(rc) == UndefinedLimit

\* const limit = rowCount === 'All' ? undefined : parseInt(rowCount, 10)
RowLimit(rc) == IF rc = "All" THEN UndefinedLimit ELSE [defined |-> TRUE, n |-> ParseInt(rc)]

Take(q, n) == SubSeq(q, 1, IF n < Len(q) THEN n ELSE Len(q))

\* response.data.items of GET .../rows with params {limit}
RowsResponse(limit) == IF limit.defined THEN Take(RowItems, limit.n) ELSE RowItems

ColumnsError == "Failed to fetch columns. Please check your inputs and try again."
RowsError    == "Failed to fetch rows. Please check your inputs and try again."

EmptyTableData == [columns |-> <<>>, rows |-> <<>>]
NoReport       == [reported |-> FALSE, columns |-> <<>>, rows |-> <<>>]
Report(cols, rws) == [reported |-> TRUE, columns |-> cols, rows |-> rws]

\* the closures of the requests in flight: each holds the state of the render
\* in which its effect ran
ColumnRequest(td)  == [rows |-> td.rows]
RowRequest(rc, td) == [rowCount |-> rc, limit |-> RowLimit(rc), columns |-> td.columns]

Event(kind, card) == [kind |-> kind, card |-> card]

InFlight(c) == BagCardinality(colReqs[c]) + BagCardinality(rowReqs[c])

\* fetchRows up to its first await, run in a render with rowCount rc and tableData td
StartFetchRows(rc, td) ==
  IF rc = "0"
  THEN [rows |-> <<>>, report |-> Report(td.columns, <<>>), isLoading |-> FALSE,
        reqs |-> EmptyBag]
  ELSE [rows |-> td.rows, report |-> NoReport, isLoading |-> TRUE,
        reqs |-> SetToBag({RowRequest(rc, td)})]

\* a click on a row option: setRowCount(option.value), then the fetchRows effect
SetRowCount(c, value) ==
  /\ events < MaxEvents
  /\ value # rowCount[c]
  /\ LET e == StartFetchRows(value, tableData[c])
     IN /\ rowCount' = [rowCount EXCEPT ![c] = value]
        /\ tableData' = [tableData EXCEPT ![c].rows = e.rows]
        /\ parentData' = [parentData EXCEPT ![c] = IF e.report.reported THEN e.report ELSE @]
        /\ isLoading' = [isLoading EXCEPT ![c] = e.isLoading]
        /\ error' = [error EXCEPT ![c] = ""]
        /\ rowReqs' = [rowReqs EXCEPT ![c] = @ (+) e.reqs]
  /\ events' = events + 1
  /\ lastEvent' = Event("setRowCount", c)
  /\ UNCHANGED colReqs

\* apiToken or docId changes: both effects of every card run again
CredentialsChange ==
  /\ events < MaxEvents
  /\ LET e(c) == StartFetchRows(rowCount[c], tableData[c])
     IN /\ tableData' = [c \in Cards |-> [tableData[c] EXCEPT !.rows = e(c).rows]]
        /\ parentData' = [c \in Cards |->
                            IF e(c).report.reported THEN e(c).report ELSE parentData[c]]
        /\ isLoading' = [c \in Cards |-> e(c).isLoading]
        /\ error' = [c \in Cards |-> ""]
        /\ colReqs' = [c \in Cards |-> colReqs[c] (+) SetToBag({ColumnRequest(tableData[c])})]
        /\ rowReqs' = [c \in Cards |-> rowReqs[c] (+) e(c).reqs]
  /\ events' = events + 1
  /\ lastEvent' = Event("credentials", "")
  /\ UNCHANGED rowCount

\* the catch block, mutated so that it also resets the stored data
CatchResetting(c, msg) ==
  /\ error' = [error EXCEPT ![c] = msg]
  /\ tableData' = [tableData EXCEPT ![c] = EmptyTableData]
  /\ UNCHANGED parentData

\* catch (err) { setError(...) }
Catch(c, msg) ==
  /\ error' = [error EXCEPT ![c] = msg]
  /\ UNCHANGED <<tableData, parentData>>

\* the column request q of card c succeeds
ColumnsResponseOk(c, q) ==
  /\ BagIn(q, colReqs[c])
  /\ LET filteredColumns == filterData(ColumnItems, selectedColumnAttributes)
     IN /\ tableData' = [tableData EXCEPT ![c].columns = filteredColumns]
        /\ parentData' = [parentData EXCEPT ![c] = Report(filteredColumns, q.rows)]
  /\ isLoading' = [isLoading EXCEPT ![c] = FALSE]
  /\ colReqs' = [colReqs EXCEPT ![c] = @ (-) SetToBag({q})]
  /\ lastEvent' = Event("columnsOk", c)
  /\ UNCHANGED <<rowCount, error, rowReqs, events>>

\* the column request q of card c fails
ColumnsResponseFail(c, q) ==
  /\ BagIn(q, colReqs[c])
  /\ Catch(c, ColumnsError)
  /\ isLoading' = [isLoading EXCEPT ![c] = FALSE]
  /\ colReqs' = [colReqs EXCEPT ![c] = @ (-) SetToBag({q})]
  /\ lastEvent' = Event("columnsFail", c)
  /\ UNCHANGED <<rowCount, rowReqs, events>>

\* the row request r of card c succeeds
RowsResponseOk(c, r) ==
  /\ BagIn(r, rowReqs[c])
  /\ LET filteredRows == filterData(RowsResponse(r.limit), selectedRowAttributes)
     IN /\ tableData' = [tableData EXCEPT ![c].rows = filteredRows]
        /\ parentData' = [parentData EXCEPT ![c] = Report(r.columns, filteredRows)]
  /\ isLoading' = [isLoading EXCEPT ![c] = FALSE]
  /\ rowReqs' = [rowReqs EXCEPT ![c] = @ (-) SetToBag({r})]
  /\ lastEvent' = Event("rowsOk", c)
  /\ UNCHANGED <<rowCount, error, colReqs, events>>

\* the row request r of card c fails
RowsResponseFail(c, r) ==
  /\ BagIn(r, rowReqs[c])
  /\ Catch(c, RowsError)
  /\ isLoading' = [isLoading EXCEPT ![c] = FALSE]
  /\ rowReqs' = [rowReqs EXCEPT ![c] = @ (-) SetToBag({r})]
  /\ lastEvent' = Event("rowsFail", c)
  /\ UNCHANGED <<rowCount, colReqs, events>>

(***************************************************************************)
(* Specifications                                                          *)
(***************************************************************************)
\* the state of the cards after mounting: both effects of each card have run
CardsMounted ==
  /\ rowCount = [c \in Cards |-> "1"]
  /\ tableData = [c \in Cards |-> EmptyTableData]
  /\ isLoading = [c \in Cards |-> TRUE]
  /\ error = [c \in Cards |-> ""]
  /\ colReqs = [c \in Cards |-> SetToBag({ColumnRequest(EmptyTableData)})]
  /\ rowReqs = [c \in Cards |-> SetToBag({RowRequest("1", EmptyTableData)})]
  /\ parentData = [c \in Cards |-> NoReport]
  /\ events = 0
  /\ lastEvent = Event("mount", "")

SelectionFixed ==
  /\ tables = <<>>
  /\ heap = [r \in Refs |-> {}]
  /\ cur = 0
  /\ hist = <<>>

FilterFixed ==
  /\ items = <<>>
  /\ selectedAttributes = {}
  /\ stored = <<>>
  /\ fetched = FALSE
  /\ filteredData = NotCopied

\* TableCard effects
Init == CardsMounted /\ SelectionFixed /\ FilterFixed

Next ==
  \/ \E c \in Cards, value \in RowOptions : SetRowCount(c, value) /\ UNCHANGED <<selVars, filterVars>>
  \/ CredentialsChange /\ UNCHANGED <<selVars, filterVars>>
  \/ \E c \in Cards : \E q \in BagToSet(colReqs[c]) :
        ColumnsResponseOk(c, q) /\ UNCHANGED <<selVars, filterVars>>
  \/ \E c \in Cards : \E q \in BagToSet(colReqs[c]) :
        ColumnsResponseFail(c, q) /\ UNCHANGED <<selVars, filterVars>>
  \/ \E c \in Cards : \E r \in BagToSet(rowReqs[c]) :
        RowsResponseOk(c, r) /\ UNCHANGED <<selVars, filterVars>>
  \/ \E c \in Cards : \E r \in BagToSet(rowReqs[c]) :
        RowsResponseFail(c, r) /\ UNCHANGED <<selVars, filterVars>>

Spec == Init /\ [][Next]_vars

\* TableListView selection handlers, for every table list and selection
InitSelection ==
  /\ tables \in TableLists
  /\ heap \in {[r \in Refs |-> IF r = 0 THEN S ELSE {}] : S \in SUBSET Ids}
  /\ cur = 0
  /\ hist = <<>>
  /\ CardsMounted /\ FilterFixed

NextSelection ==
  \/ \E tableId \in Ids : handleSelectTable(tableId) /\ UNCHANGED <<filterVars, cardVars>>
  \/ handleSelectAll /\ UNCHANGED <<filterVars, cardVars>>

SpecSelection == InitSelection /\ [][NextSelection]_vars

\* filterData, for every item sequence and allow-list
InitFilter ==
  /\ items \in SeqsUpTo(Records, MaxRecords)
  /\ selectedAttributes \in SUBSET AttrNames
  /\ stored = <<>>
  /\ fetched = FALSE
  /\ filteredData = NotCopied
  /\ CardsMounted /\ SelectionFixed

NextFilter ==
  \/ FetchSuccess /\ UNCHANGED <<selVars, cardVars>>
  \/ handleCopyTableData /\ UNCHANGED <<selVars, cardVars>>

SpecFilter == InitFilter /\ [][NextFilter]_vars

(***************************************************************************)
(* Properties of TableListView (checked under SpecSelection)               *)
(***************************************************************************)
LastCall == hist[Len(hist)]

\* C1: handleSelectAll clears the selection when the selection S equals the
\* id set of the table list exactly, and in every other case (also when S has
\* as many members as the list but other members) sets it to exactly that id set.
C1_SelectAllExact ==
  (hist # <<>> /\ LastCall.op = "all") =>
     LET S      == LastCall.before
         allIds == TableIdSet(tables)
     IN /\ (S = allIds => selectedTables = {})
        /\ (S # allIds => selectedTables = allIds)

\* C2 as stated: two handleSelectAll calls in a row restore the selection
\* that was there before the first one, whatever it was.
C2_SelfInverse ==
  (Len(hist) = 2 /\ hist[1].op = "all" /\ hist[2].op = "all") =>
     selectedTables = hist[1].before

\* C2 amended: two handleSelectAll calls in a row (table ids distinct) restore
\* the selection S exactly when S is empty or S is the id set of the table list.
C2_SelfInverseOnEmptyOrAll ==
  (Len(hist) = 2 /\ hist[1].op = "all" /\ hist[2].op = "all") =>
     LET S == hist[1].before
     IN (selectedTables = S) <=> (S = {} \/ S = TableIdSet(tables))

\* two select-all calls took the full selection of a non-empty list to the
\* empty set and back
C2_Witness ==
  /\ Len(hist) = 2 /\ hist[1].op = "all" /\ hist[2].op = "all"
  /\ Len(tables) = 3
  /\ hist[1].before = TableIdSet(tables)
  /\ hist[2].before = {}
  /\ selectedTables = TableIdSet(tables)

\* C3: handleSelectTable(id) yields S without id when id was in S and S plus
\* id otherwise, for ids in or outside the table list; no other membership
\* changes; the previous Set object still holds S; toggling the same id twice
\* restores S.
C3_Toggle ==
  (hist # <<>> /\ LastCall.op = "toggle") =>
     LET S  == LastCall.before
         id == LastCall.id
     IN /\ selectedTables = (IF id \in S THEN S \ {id} ELSE S \cup {id})
        /\ \A x \in Ids \ {id} : (x \in selectedTables) <=> (x \in S)
        /\ heap[LastCall.ref] = S
        /\ (Len(hist) = 2 /\ hist[1].op = "toggle" /\ hist[1].id = id)
              => selectedTables = hist[1].before

\* an id outside the table list was toggled off and on again over a
\* non-empty selection
C3_Witness ==
  /\ Len(hist) = 2 /\ hist[1].op = "toggle" /\ hist[2].op = "toggle"
  /\ hist[1].id = hist[2].id
  /\ hist[1].id \notin TableIdSet(tables)
  /\ hist[1].id \in hist[1].before
  /\ Cardinality(hist[1].before) = 2
  /\ selectedTables = hist[1].before
  /\ heap[LastCall.ref] = hist[1].before \ {hist[1].id}

(***************************************************************************)
(* Properties of filterData (checked under SpecFilter)                     *)
(***************************************************************************)
\* the value of attribute k of record R once the empty-string entries of a
\* mapping-valued `values` are removed
AfterCleanup(R, k) ==
  IF k = "values" /\ R[k].t = "object"
  THEN Obj([c \in {d \in DOMAIN R[k].m : R[k].m[d] # ""} |-> R[k].m[c]])
  ELSE R[k]

\* C6: each filtered record has exactly the attributes of its input record
\* whose name is in the allow-list and whose value after the `values` cleanup
\* is not null, undefined or ''; kept attributes other than `values` keep
\* their value; no items give no records; an empty allow-list gives empty records.
C6_FilterExact ==
  fetched =>
    /\ Len(stored) = Len(items)
    /\ \A i \in 1..Len(items) :
         LET R == items[i]
             F == stored[i]
         IN /\ DOMAIN F = {k \in DOMAIN R \cap selectedAttributes :
                             /\ AfterCleanup(R, k).t \notin {"null", "undefined"}
                             /\ ~(AfterCleanup(R, k).t = "string" /\ AfterCleanup(R, k).s = "")}
            /\ \A k \in DOMAIN F : IF k = "values" THEN F[k] = AfterCleanup(R, k)
                                                   ELSE F[k] = R[k]
            /\ (selectedAttributes = {} => DOMAIN F = {})
    /\ (items = <<>> => stored = <<>>)

\* a record with a null id, an object-valued name and a `values` mapping
\* holding an empty entry was filtered with the full allow-list
C6_Witness ==
  /\ fetched
  /\ selectedAttributes = AttrNames
  /\ Len(items) = 1
  /\ DOMAIN items[1] = AttrNames
  /\ items[1]["id"] = Null
  /\ items[1]["name"].t = "object"
  /\ items[1]["values"].t = "object"
  /\ DOMAIN items[1]["values"].m = Cols
  /\ items[1]["values"].m["Amount"] = ""
  /\ items[1]["values"].m["Date"] # ""
  /\ DOMAIN stored[1] = {"name", "values"}
  /\ DOMAIN stored[1]["values"].m = {"Date"}

\* C7: filtering is idempotent: filtering the stored (already filtered) data
\* with the same allow-list, as the copy and the preview do, gives the stored
\* data back.
C7_Idempotent ==
  /\ fetched => filterData(stored, selectedAttributes) = stored
  /\ filteredData.copied => filteredData.out = filteredData.from

\* the copy ran on stored data from which the first pass had removed something
C7_Witness ==
  /\ fetched
  /\ filteredData.copied
  /\ filteredData.from = stored
  /\ filteredData.out = stored
  /\ Len(items) = 1
  /\ stored # items
  /\ "values" \in DOMAIN stored[1]
  /\ stored[1]["values"].t = "object"
  /\ items[1]["values"].m # stored[1]["values"].m

(***************************************************************************)
(* Properties of the TableCard effects (checked under Spec)                *)
(***************************************************************************)
\* C4: while a card's row mode is None ('0') no row request was issued for
\* that mode and the card's stored rows are the empty sequence, also when
\* requests issued earlier complete.
C4_NoneYieldsNoRows ==
  \A c \in Cards :
    rowCount[c] = "0" =>
      /\ tableData[c].rows = <<>>
      /\ \A r \in BagToSet(rowReqs[c]) : r.rowCount # "0"

\* C5: a step in which a column or row request of card c fails leaves the
\* error of c non-empty and the stored columns and rows of c as they were,
\* issues no request, and changes nothing of any other card.
C5_FailureIsLocal ==
  [][\A c \in Cards :
       (lastEvent' = Event("columnsFail", c) \/ lastEvent' = Event("rowsFail", c)) =>
          /\ error'[c] # ""
          /\ tableData'[c] = tableData[c]
          /\ colReqs'[c] \sqsubseteq colReqs[c]
          /\ rowReqs'[c] \sqsubseteq rowReqs[c]
          /\ BagCardinality(colReqs'[c]) + BagCardinality(rowReqs'[c]) = InFlight(c) - 1
          /\ \A d \in Cards \ {c} :
               /\ tableData'[d] = tableData[d]
               /\ error'[d] = error[d]
               /\ colReqs'[d] = colReqs[d]
               /\ rowReqs'[d] = rowReqs[d]
               /\ rowCount'[d] = rowCount[d]
               /\ isLoading'[d] = isLoading[d]
               /\ parentData'[d] = parentData[d]
    ]_vars

\* a row request failed on a card that had stored columns and rows, next to
\* another card holding data and no error
C5_Witness ==
  \E c \in Cards :
    /\ lastEvent = Event("rowsFail", c)
    /\ error[c] = RowsError
    /\ tableData[c].columns # <<>>
    /\ tableData[c].rows # <<>>
    /\ \E d \in Cards \ {c} : tableData[d].rows # <<>> /\ error[d] = "" /\ InFlight(d) > 0

\* C8: every row request carries limit 1 when the mode at issue is One ('1')
\* and no limit when it is All; row requests are issued in modes One and All
\* only; a new card starts in mode One.
C8_RowLimit ==
  /\ \A c \in Cards : \A r \in BagToSet(rowReqs[c]) :
       /\ r.rowCount \in {"1", "All"}
       /\ r.rowCount = "1" => (r.limit.defined /\ r.limit.n = 1)
       /\ r.rowCount = "All" => ~r.limit.defined
  /\ lastEvent.kind = "mount" => \A c \in Cards : rowCount[c] = "1"

\* a card has a limit-1 request and an unlimited request in flight
C8_Witness ==
  \E c \in Cards :
    /\ rowCount[c] = "All"
    /\ \E r \in BagToSet(rowReqs[c]) : r.rowCount = "1" /\ r.limit.defined /\ r.limit.n = 1
    /\ \E r \in BagToSet(rowReqs[c]) : r.rowCount = "All" /\ ~r.limit.defined

\* C9: once no request of a card is in flight, the {columns, rows} last handed
\* to onTableDataChange for it equals the card's stored tableData.
C9_ParentAgrees ==
  \A c \in Cards :
    (InFlight(c) = 0 /\ parentData[c].reported) =>
       /\ parentData[c].columns = tableData[c].columns
       /\ parentData[c].rows = tableData[c].rows

\* C10: isLoading is on while a request of the card is in flight and off once
\* every issued request has completed.
C10_LoadingTracksRequests ==
  \A c \in Cards :
    /\ InFlight(c) > 0 => isLoading[c]
    /\ InFlight(c) = 0 => ~isLoading[c]

====
